---- MODULE Spec2Model ----
(***************************************************************************)
(* Model of src/db_operation.py: CustomerPurchasesDBSearchAnalyzer and     *)
(* main().                                                                 *)
(*                                                                         *)
(* A record of the snapshot is a function from column names to values.     *)
(* Of the six columns of customer_purchases the model carries two: the     *)
(* indexed customer_id and the unindexed product_id; column values are     *)
(* naturals.  A string is a sequence of digit codes, so that str() of a    *)
(* value, string equality and the lexicographic string order are computed  *)
(* and differ from the numeric order (str(10) < str(2)).                   *)
(***************************************************************************)
EXTENDS Integers, Sequences, FiniteSets, TLC

VARIABLES
    pc,            \* position of main(): see PcValues
    connection,    \* self.connection: "None", "open" or "closed"
    closeCount,    \* number of calls of self.connection.close()
    product_data,  \* self.product_data: the snapshot
    table,         \* rows of the store's table customer_purchases
    exc,           \* exception that left the last call / main(), or "none"
    notice,        \* last session-level message printed by main()
    last           \* what the last method call returned and printed

vars == <<pc, connection, closeCount, product_data, table, exc, notice, last>>

----------------------------------------------------------------------------
(* Bounds of the model *)

MaxLen == 3        \* longest snapshot / table

(* Values of a column, the columns of a record, the column names a caller  *)
(* can pass (one of them in no record and not in the store's schema).      *)
IdValues == {1, 2, 3, 10}
ProductValues == {1, 2}
Columns == {"customer_id", "product_id"}
AllColumns == Columns \cup {"no_such_column"}

Records == {[customer_id |-> c, product_id |-> p] : c \in IdValues, p \in ProductValues}

Snapshots == UNION {[1..n -> Records] : n \in 0..MaxLen}

(* Strings a user can type or a caller can pass: "", "1", "2", "3", "4",   *)
(* "10", "01".                                                             *)
Targets == {<<>>, <<1>>, <<2>>, <<3>>, <<4>>, <<1, 0>>, <<0, 1>>}

----------------------------------------------------------------------------
(* Strings *)

RECURSIVE Str(_)
(* str(value) of a non-negative integer: its decimal digits *)
Str(n) == IF n < 10 THEN <<n>> ELSE Append(Str(n \div 10), n % 10)

(* a < b for Python strings: lexicographic by code point *)
StrLess(a, b) ==
    \E k \in 1..Len(b) :
        /\ \A j \in 1..(k - 1) : j <= Len(a) /\ a[j] = b[j]
        /\ (k > Len(a) \/ a[k] < b[k])

RECURSIVE ParseInt(_)
(* the integer the store reads from a digit string ('01' = 1) *)
ParseInt(s) ==
    IF Len(s) = 0 THEN 0
    ELSE 10 * ParseInt(SubSeq(s, 1, Len(s) - 1)) + s[Len(s)]

Range(s) == {s[i] : i \in 1..Len(s)}

----------------------------------------------------------------------------
(* The in-memory search algorithms *)

None == <<>>            \* Python's None for an Optional[dict] result
Some(record) == <<record>>

(* str(x[search_column]): the sort key and the compared value *)
ColumnStr(record, column) == Str(record[column])

(* x[search_column] raises KeyError for a record without the column *)
HasColumn(record, column) == column \in DOMAIN record

RECURSIVE Insert(_, _, _)
(* place record r behind every element whose key is not greater: the      *)
(* position a stable sort gives to a later element                         *)
Insert(s, r, column) ==
    IF Len(s) = 0 THEN <<r>>
    ELSE IF StrLess(ColumnStr(r, column), ColumnStr(s[Len(s)], column))
         THEN Append(Insert(SubSeq(s, 1, Len(s) - 1), r, column), s[Len(s)])
         ELSE Append(s, r)

RECURSIVE SortedByKey(_, _)
(* sorted(data, key=lambda x: str(x[column])): stable, ascending *)
SortedByKey(data, column) ==
    IF Len(data) = 0 THEN <<>>
    ELSE Insert(SortedByKey(SubSeq(data, 1, Len(data) - 1), column),
                data[Len(data)], column)

(* a binary search that forgets the sort pass *)
UnsortedData(data, column) == data

(* sorted_data of binary_search *)
SortedData(data, column) == SortedByKey(data, column)

(* a probe that walks the interval from its left end *)
MidLeft(left, right) == left

(* mid = (left + right) // 2, on 0-based indices *)
Mid(left, right) == (left + right) \div 2

RECURSIVE BinaryLoop(_, _, _, _, _, _)
(* the while loop of binary_search; left, right, mid are 0-based *)
BinaryLoop(sorted_data, target, column, left, right, comparisons) ==
    IF left <= right
    THEN LET c == comparisons + 1
             mid == Mid(left, right)
             mid_value == ColumnStr(sorted_data[mid + 1], column)
         IN IF mid_value = target
            THEN [raised |-> "none", result |-> Some(sorted_data[mid + 1]),
                  comparisons |-> c]
            ELSE IF StrLess(mid_value, target)
                 THEN BinaryLoop(sorted_data, target, column, mid + 1, right, c)
                 ELSE BinaryLoop(sorted_data, target, column, left, mid - 1, c)
    ELSE [raised |-> "none", result |-> None, comparisons |-> comparisons]

(* binary_search(target_value, search_column) on snapshot data.  The      *)
(* KeyError of the sort key is caught and turned into (None, 0).           *)
binary_search(data, target, column) ==
    IF \E i \in 1..Len(data) : ~HasColumn(data[i], column)
    THEN [raised |-> "none", result |-> None, comparisons |-> 0]
    ELSE BinaryLoop(SortedData(data, column), target, column,
                    0, Len(data) - 1, 0)

RECURSIVE SequentialLoop(_, _, _, _, _)
(* the for loop of sequential_search from the i-th record (1-based) on;   *)
(* record[search_column] is outside any try block                          *)
SequentialLoop(data, target, column, i, comparisons) ==
    IF i > Len(data)
    THEN [raised |-> "none", result |-> None, comparisons |-> comparisons]
    ELSE IF ~HasColumn(data[i], column)
         THEN [raised |-> "KeyError", result |-> None, comparisons |-> comparisons + 1]
         ELSE IF ColumnStr(data[i], column) = target
              THEN [raised |-> "none", result |-> Some(data[i]),
                    comparisons |-> comparisons + 1]
              ELSE SequentialLoop(data, target, column, i + 1, comparisons + 1)

(* a scan that counts a comparison only after a mismatch *)
SequentialLate(data, target, column) ==
    LET r == SequentialLoop(data, target, column, 1, 0)
    IN IF r.result # None THEN [r EXCEPT !.comparisons = r.comparisons - 1] ELSE r

(* sequential_search(target_value, search_column) on snapshot data *)
sequential_search(data, target, column) ==
    SequentialLoop(data, target, column, 1, 0)

(* the working copy is a new list: self.product_data after binary_search,  *)
(* and the same after an in-place self.product_data.sort(...)              *)
SnapshotSortedInPlace(data, column) ==
    IF \E i \in 1..Len(data) : ~HasColumn(data[i], column)
    THEN data ELSE SortedByKey(data, column)

SnapshotAfterBinarySearch(data, column) == data

----------------------------------------------------------------------------
(* The store *)

RECURSIVE InsertById(_, _)
InsertById(s, r) ==
    IF Len(s) = 0 THEN <<r>>
    ELSE IF r.customer_id < s[Len(s)].customer_id
         THEN Append(InsertById(SubSeq(s, 1, Len(s) - 1), r), s[Len(s)])
         ELSE Append(s, r)

RECURSIVE OrderByCustomerId(_)
(* SELECT ... FROM customer_purchases ORDER BY customer_id: numeric order *)
OrderByCustomerId(tbl) ==
    IF Len(tbl) = 0 THEN <<>>
    ELSE InsertById(OrderByCustomerId(SubSeq(tbl, 1, Len(tbl) - 1)), tbl[Len(tbl)])

(* the sentinel of a lookup that could not be made: (None, 0) *)
QueryError == [result |-> None, time |-> 0, error |-> TRUE]

(* SELECT * FROM customer_purchases WHERE column = %s, fetchone(), timed.  *)
(* The outcomes a lookup can have: without a connection the sentinel; with *)
(* one, the store may raise on any query (unknown column, a value that is  *)
(* no number, a closed connection, a transient failure), and otherwise     *)
(* returns one of the rows whose column equals the value, or no row, after *)
(* a positive elapsed time (1).                                            *)
database_search(conn, tbl, search_value, column) ==
    IF conn = "None" THEN {QueryError}
    ELSE {QueryError} \cup
         IF conn = "open" /\ column \in Columns /\ Len(search_value) > 0
         THEN LET rows == {r \in Range(tbl) : r[column] = ParseInt(search_value)}
              IN IF rows = {}
                 THEN {[result |-> None, time |-> 1, error |-> FALSE]}
                 ELSE {[result |-> Some(r), time |-> 1, error |-> FALSE] : r \in rows}
         ELSE {}

database_search_indexed(conn, tbl, search_value, column) ==
    database_search(conn, tbl, search_value, column)

database_search_unindexed(conn, tbl, search_value, column) ==
    database_search(conn, tbl, search_value, column)

(* fetch_all_data(): the value of self.product_data afterwards and the     *)
(* returned list; ok says whether the SELECT went through                  *)
fetch_all_data(conn, data, tbl, ok) ==
    IF conn # "None"
    THEN IF ok /\ conn = "open"
         THEN [product_data |-> OrderByCustomerId(tbl), returned |-> OrderByCustomerId(tbl)]
         ELSE [product_data |-> data, returned |-> <<>>]
    ELSE [product_data |-> data, returned |-> data]

----------------------------------------------------------------------------
(* The comparison reporter *)

(* indexed_columns of perform_search_comparison, as far as modelled *)
indexed_columns == {"customer_id"}

NoResult == [raised |-> "none", result |-> None, comparisons |-> 0]

(* nothing called yet / locals of the last call gone *)
NoCall ==
    [op |-> "none", column |-> "", target |-> <<>>, is_indexed |-> FALSE,
     db |-> QueryError, binary |-> NoResult, sequential |-> NoResult,
     raised |-> "none", summary |-> FALSE, speedup |-> None,
     shown |-> None, notfound |-> FALSE]

(* the ratio is printed although a count is zero *)
SpeedupAlways(sequential_comparisons, binary_comparisons) == TRUE

(* if sequential_comparisons > 0 and binary_comparisons > 0 *)
SpeedupPrinted(sequential_comparisons, binary_comparisons) ==
    sequential_comparisons > 0 /\ binary_comparisons > 0

(* perform_search_comparison(search_value, column) given the store's       *)
(* answer db: what it computed and printed, or the exception that left it. *)
(* The speedup sequential/binary is kept as the pair of its terms.         *)
perform_search_comparison(data, search_value, column, db) ==
    LET b == binary_search(data, search_value, column)
        s == sequential_search(SnapshotAfterBinarySearch(data, column),
                               search_value, column)
        called == [NoCall EXCEPT !.op = "compare", !.column = column,
                                 !.target = search_value,
                                 !.is_indexed = (column \in indexed_columns),
                                 !.db = db, !.binary = b]
    IN IF s.raised # "none"
       THEN [called EXCEPT !.raised = s.raised]
       ELSE [called EXCEPT !.sequential = s,
                           !.summary = TRUE,
                           !.speedup = IF SpeedupPrinted(s.comparisons, b.comparisons)
                                       THEN <<s.comparisons, b.comparisons>>
                                       ELSE None,
                           !.shown = db.result,
                           !.notfound = (db.result = None)]

(* the store lookup perform_search_comparison dispatches to *)
DbLookup(conn, tbl, search_value, column) ==
    IF column \in indexed_columns
    THEN database_search_indexed(conn, tbl, search_value, column)
    ELSE database_search_unindexed(conn, tbl, search_value, column)

----------------------------------------------------------------------------
(* main() and the interactive menu *)

PcValues == {"start", "constructed", "menu", "pause", "done", "crashed",
             "api", "returned"}

(* close_connection(): a connection object stays truthy once closed *)
close_connection(conn) ==
    IF conn # "None"
    THEN [connection |-> "closed", closed |-> 1]
    ELSE [connection |-> conn, closed |-> 0]

(* the finally block of main(), entered with the session message given *)
Finally(message, nextPc) ==
    /\ connection' = close_connection(connection).connection
    /\ closeCount' = closeCount + close_connection(connection).closed
    /\ notice' = message
    /\ pc' = nextPc

Init ==
    /\ pc = "start"
    /\ connection = "None"
    /\ closeCount = 0
    /\ product_data = <<>>
    /\ table \in Snapshots
    /\ exc = "none"
    /\ notice = "none"
    /\ last = NoCall

(* CustomerPurchasesDBSearchAnalyzer(): psycopg2.connect succeeds *)
ConstructConnected ==
    /\ pc = "start"
    /\ connection' = "open"
    /\ pc' = "constructed"
    /\ UNCHANGED <<closeCount, product_data, table, exc, notice, last>>

(* CustomerPurchasesDBSearchAnalyzer(): psycopg2.connect raises; the       *)
(* handler calls self.load_from_csv(), which the class does not define,    *)
(* and the AttributeError leaves __init__ and main()                       *)
ConstructUnreachable ==
    /\ pc = "start"
    /\ exc' = "AttributeError"
    /\ pc' = "crashed"
    /\ UNCHANGED <<connection, closeCount, product_data, table, notice, last>>

(* data = analyzer.fetch_all_data(); if not data: return; otherwise        *)
(* display_index_information() and on to the menu                          *)
FetchAllData ==
    /\ pc = "constructed"
    /\ \E ok \in BOOLEAN :
          LET f == fetch_all_data(connection, product_data, table, ok)
          IN /\ product_data' = f.product_data
             /\ IF f.returned = <<>>
                THEN notice' = "no_data" /\ pc' = "done"
                ELSE notice' = notice /\ pc' = "menu"
    /\ UNCHANGED <<connection, closeCount, table, exc, last>>

(* choice '0': break, then the finally block *)
ChoiceExit ==
    /\ pc = "menu"
    /\ Finally("thanks", "done")
    /\ UNCHANGED <<product_data, table, exc, last>>

(* what follows a call made from the menu: the pause, or the exception     *)
(* passing through the finally block of main()                             *)
AfterCall(r) ==
    IF r.raised = "none"
    THEN pc' = "pause" /\ UNCHANGED <<connection, closeCount, exc, notice>>
    ELSE exc' = r.raised /\ Finally("thanks", "crashed")

(* choices '1'..'6': search_by_column(column, display_name) *)
ChoiceSearch ==
    /\ pc = "menu"
    /\ \E column \in Columns, search_value \in Targets :
          IF search_value = <<>>
          THEN /\ pc' = "pause"
               /\ UNCHANGED <<connection, closeCount, product_data, exc, notice, last>>
          ELSE \E db \in DbLookup(connection, table, search_value, column) :
                  LET r == perform_search_comparison(product_data, search_value, column, db)
                  IN /\ last' = r
                     /\ product_data' = SnapshotAfterBinarySearch(product_data, column)
                     /\ AfterCall(r)
    /\ UNCHANGED table

(* choice '7': display_available_data() *)
ChoiceView ==
    /\ pc = "menu"
    /\ pc' = "pause"
    /\ UNCHANGED <<connection, closeCount, product_data, table, exc, notice, last>>

(* choice '8': run_performance_tests() with the first record's values; of  *)
(* its three cases the two on modelled columns                             *)
ChoiceTests ==
    /\ pc = "menu"
    /\ IF product_data = <<>>
       THEN /\ pc' = "pause"
            /\ UNCHANGED <<connection, closeCount, product_data, exc, notice, last>>
       ELSE LET v1 == Str(product_data[1]["customer_id"])
                v2 == Str(product_data[1]["product_id"])
                d1 == SnapshotAfterBinarySearch(product_data, "customer_id")
            IN \E db1 \in DbLookup(connection, table, v1, "customer_id"),
                  db2 \in DbLookup(connection, table, v2, "product_id") :
                  LET r1 == perform_search_comparison(product_data, v1, "customer_id", db1)
                      r2 == perform_search_comparison(d1, v2, "product_id", db2)
                      r == IF r1.raised # "none" THEN r1 ELSE r2
                  IN /\ last' = r
                     /\ product_data' =
                           IF r1.raised # "none" THEN d1
                           ELSE SnapshotAfterBinarySearch(d1, "product_id")
                     /\ AfterCall(r)
    /\ UNCHANGED table

(* any other choice *)
ChoiceInvalid ==
    /\ pc = "menu"
    /\ pc' = "pause"
    /\ UNCHANGED <<connection, closeCount, product_data, table, exc, notice, last>>

(* input("Press Enter to continue...") returns; the loop starts over *)
PressEnter ==
    /\ pc = "pause"
    /\ pc' = "menu"
    /\ last' = NoCall
    /\ UNCHANGED <<connection, closeCount, product_data, table, exc, notice>>

(* KeyboardInterrupt at an input() of the menu loop: except, then finally *)
Interrupt ==
    /\ pc \in {"menu", "pause"}
    /\ Finally("interrupted", "done")
    /\ UNCHANGED <<product_data, table, exc, last>>

Next ==
    \/ ConstructConnected
    \/ ConstructUnreachable
    \/ FetchAllData
    \/ ChoiceExit
    \/ ChoiceSearch
    \/ ChoiceView
    \/ ChoiceTests
    \/ ChoiceInvalid
    \/ PressEnter
    \/ Interrupt

Spec == Init /\ [][Next]_vars

----------------------------------------------------------------------------
(* The methods called on a constructed analyzer with arbitrary arguments   *)

(* the snapshots fetch_all_data can load *)
LoadedSnapshots == {OrderByCustomerId(t) : t \in Snapshots}

InitSearch ==
    /\ pc = "api"
    /\ connection = "open"
    /\ closeCount = 0
    /\ product_data \in LoadedSnapshots
    /\ table = product_data
    /\ exc = "none"
    /\ notice = "none"
    /\ last = NoCall

(* analyzer.binary_search(target, column) *)
CallBinarySearch ==
    /\ pc = "api"
    /\ \E column \in AllColumns, target \in Targets :
          LET b == binary_search(product_data, target, column)
          IN /\ last' = [NoCall EXCEPT !.op = "binary", !.column = column,
                                       !.target = target, !.binary = b,
                                       !.raised = b.raised]
             /\ exc' = b.raised
             /\ product_data' = SnapshotAfterBinarySearch(product_data, column)
    /\ pc' = "returned"
    /\ UNCHANGED <<connection, closeCount, table, notice>>

(* analyzer.sequential_search(target, column) *)
CallSequentialSearch ==
    /\ pc = "api"
    /\ \E column \in AllColumns, target \in Targets :
          LET s == sequential_search(product_data, target, column)
          IN /\ last' = [NoCall EXCEPT !.op = "sequential", !.column = column,
                                       !.target = target, !.sequential = s,
                                       !.raised = s.raised]
             /\ exc' = s.raised
    /\ pc' = "returned"
    /\ UNCHANGED <<connection, closeCount, product_data, table, notice>>

(* analyzer.perform_search_comparison(search_value, column) *)
CallPerformSearchComparison ==
    /\ pc = "api"
    /\ \E column \in AllColumns, search_value \in Targets :
          \E db \in DbLookup(connection, table, search_value, column) :
             LET r == perform_search_comparison(product_data, search_value, column, db)
             IN /\ last' = r
                /\ exc' = r.raised
                /\ product_data' = SnapshotAfterBinarySearch(product_data, column)
    /\ pc' = "returned"
    /\ UNCHANGED <<connection, closeCount, table, notice>>

(* the caller takes the result (or handles the exception) and goes on *)
Return ==
    /\ pc = "returned"
    /\ pc' = "api"
    /\ exc' = "none"
    /\ last' = NoCall
    /\ UNCHANGED <<connection, closeCount, product_data, table, notice>>

NextSearch ==
    \/ CallBinarySearch
    \/ CallSequentialSearch
    \/ CallPerformSearchComparison
    \/ Return

SpecSearch == InitSearch /\ [][NextSearch]_vars

TypeOK ==
    /\ pc \in PcValues
    /\ connection \in {"None", "open", "closed"}
    /\ closeCount \in 0..2
    /\ product_data \in Snapshots
    /\ table \in Snapshots
    /\ exc \in {"none", "AttributeError", "KeyError"}
    /\ notice \in {"none", "no_data", "thanks", "interrupted"}

----------------------------------------------------------------------------
(* Properties *)

(* the 1-based positions of the snapshot whose column string is the target *)
Matches(data, target, column) ==
    {i \in 1..Len(data) : ColumnStr(data[i], column) = target}

Min(S) == CHOOSE m \in S : \A n \in S : m <= n

(* ceil(log2(n)) for n >= 1 *)
CeilLog2(n) == CHOOSE k \in 0..n : 2^k >= n /\ (k = 0 \/ 2^(k - 1) < n)

(* a call of perform_search_comparison on a column every record has *)
Compared == last.op = "compare" /\ last.column \in Columns

(* C1: on a column present in every record, binary_search returns a record *)
(* exactly when sequential_search does; a returned record is an element of *)
(* the snapshot whose column string equals the target; the two records     *)
(* differ only if the target occurs more than once in the column.          *)
C1_SearchesAgree ==
    Compared =>
        LET b == last.binary.result
            s == last.sequential.result
        IN /\ last.raised = "none"
           /\ (b # None) <=> (s # None)
           /\ \A r \in {b, s} :
                 r # None => /\ r[1] \in Range(product_data)
                             /\ ColumnStr(r[1], last.column) = last.target
           /\ b # s =>
                 Cardinality(Matches(product_data, last.target, last.column)) > 1

(* both searches found a record, and not the same one *)
C1_Witness ==
    /\ Compared
    /\ last.binary.result # None
    /\ last.sequential.result # None
    /\ last.binary.result # last.sequential.result

(* C2: on a non-empty snapshot of N records sequential_search returns the  *)
(* first record in snapshot order whose column string equals the target,   *)
(* with its position (index + 1, at most N) as the comparison count, and   *)
(* not-found with exactly N comparisons if there is none.                  *)
C2_SequentialFirstMatch ==
    (last.op = "sequential" /\ last.column \in Columns /\ Len(product_data) >= 1) =>
        LET m == Matches(product_data, last.target, last.column)
            s == last.sequential
        IN /\ s.raised = "none"
           /\ IF m = {}
              THEN s.result = None /\ s.comparisons = Len(product_data)
              ELSE /\ s.result = Some(product_data[Min(m)])
                   /\ s.comparisons = Min(m)
                   /\ s.comparisons <= Len(product_data)

(* the target occurs twice, first at the second record *)
C2_Witness ==
    /\ last.op = "sequential"
    /\ last.column \in Columns
    /\ last.sequential.result # None
    /\ last.sequential.comparisons = 2
    /\ Cardinality(Matches(product_data, last.target, last.column)) = 2

(* C3: on a non-empty snapshot of N records binary_search returns a record *)
(* matching an existing target after at most ceil(log2(N+1)) comparisons;  *)
(* customer_id = 2 among the ids 1, 2, 3 is found in at most 2.            *)
C3_BinaryBound ==
    (last.op = "binary" /\ last.column \in Columns
        /\ Matches(product_data, last.target, last.column) # {}) =>
        LET b == last.binary
        IN /\ b.result # None
           /\ ColumnStr(b.result[1], last.column) = last.target
           /\ b.comparisons >= 1
           /\ b.comparisons <= CeilLog2(Len(product_data) + 1)
           /\ ( /\ Len(product_data) = 3
                /\ \A i \in 1..3 : product_data[i].customer_id = i
                /\ last.column = "customer_id"
                /\ last.target = Str(2) ) => b.comparisons <= 2

(* a found target that took all ceil(log2(N+1)) comparisons, N = 3 *)
C3_Witness ==
    /\ last.op = "binary"
    /\ last.column \in Columns
    /\ Len(product_data) = 3
    /\ last.binary.result # None
    /\ last.binary.comparisons = 2

(* a comparison on a snapshot of more than one record whose target occurs  *)
(* exactly once in the column                                              *)
UniqueTarget ==
    /\ Compared
    /\ Len(product_data) > 1
    /\ Cardinality(Matches(product_data, last.target, last.column)) = 1

(* C4 as claimed: for a snapshot of more than one record and a target that *)
(* occurs exactly once, sequential_comparisons / binary_comparisons >= 1.  *)
C4_SpeedupAtLeastOne ==
    UniqueTarget =>
        /\ last.speedup # None
        /\ last.speedup[1] >= last.speedup[2]

(* C4 as amended: the ratio is >= 1 when moreover the target's position in *)
(* the snapshot (index + 1) is at least ceil(log2(N+1)).                   *)
C4_SpeedupFromLogPosition ==
    (UniqueTarget /\ Min(Matches(product_data, last.target, last.column))
                        >= CeilLog2(Len(product_data) + 1)) =>
        /\ last.speedup # None
        /\ last.speedup = <<last.sequential.comparisons, last.binary.comparisons>>
        /\ last.speedup[1] >= last.speedup[2]

(* a unique target at position ceil(log2(N+1)) = 2 of 3, two probes each *)
C4_Witness ==
    /\ UniqueTarget
    /\ Len(product_data) = 3
    /\ Min(Matches(product_data, last.target, last.column)) = 2
    /\ last.speedup = <<2, 2>>

(* C5: for a column absent from the records of a non-empty snapshot both   *)
(* binary_search and sequential_search return None and raise nothing.      *)
C5_MissingColumnReturnsNone ==
    (last.op \in {"binary", "sequential"} /\ last.column \notin Columns
        /\ Len(product_data) >= 1) =>
        /\ last.raised = "none"
        /\ last.binary.result = None
        /\ last.sequential.result = None

(* C6: when the connection cannot be established the constructor still     *)
(* completes with connection None and an empty snapshot, and main()        *)
(* reports that no data is available and returns without an exception.     *)
C6_ConnectFailureGraceful ==
    (pc # "start" /\ connection = "None") =>
        /\ exc = "none"
        /\ pc # "crashed"
        /\ product_data = <<>>
        /\ pc = "done" => notice = "no_data"

(* C7: whenever main() has ended with a connection that was opened, the    *)
(* connection has been closed exactly once; while the session can still    *)
(* query the store the connection is not closed.                           *)
C7_ClosedExactlyOnce ==
    /\ (pc \in {"done", "crashed"} /\ connection # "None") =>
          connection = "closed" /\ closeCount = 1
    /\ pc \in {"constructed", "menu", "pause"} =>
          connection = "open" /\ closeCount = 0

(* C8: for every column and value perform_search_comparison runs to its    *)
(* summary and no exception leaves it; a lookup the store rejects gives    *)
(* the sentinel (no result, zero elapsed time).                            *)
C8_ComparisonCompletes ==
    last.op = "compare" =>
        /\ last.raised = "none"
        /\ last.summary
        /\ last.db.error => last.db.result = None /\ last.db.time = 0

(* C9: once loaded the snapshot stays as it is through every step of the   *)
(* menu loop, and the sequential search of a comparison, which runs after  *)
(* the binary search, returns what it returns on the snapshot before it.   *)
C9_SnapshotReadOnly ==
    [][(pc \in {"menu", "pause"}) =>
          (/\ product_data' = product_data
           /\ (last'.op = "compare" /\ pc = "menu") =>
                 (last'.sequential =
                    sequential_search(product_data, last'.target, last'.column)))]_vars

(* a comparison has run on a snapshot that is not in the column's string   *)
(* order, and found its target                                             *)
C9_Witness ==
    /\ pc = "pause"
    /\ last.op = "compare"
    /\ last.binary.result # None
    /\ last.sequential.comparisons >= 2
    /\ SortedByKey(product_data, last.column) # product_data

(* C10: on the empty snapshot binary_search and sequential_search return   *)
(* not-found with 0 comparisons for every column name and target, without  *)
(* an exception, and perform_search_comparison prints no speedup ratio.    *)
C10_EmptySnapshot ==
    (product_data = <<>> /\ last.op # "none") =>
        /\ last.raised = "none"
        /\ last.binary = NoResult
        /\ last.sequential = NoResult
        /\ last.op = "compare" => last.summary /\ last.speedup = None

(* a comparison on the empty snapshot for a column no record could have *)
C10_Witness ==
    /\ product_data = <<>>
    /\ last.op = "compare"
    /\ last.column \notin Columns
    /\ last.summary

(* C11: when the store lookup of a comparison fails, the summary shows the *)
(* record the in-memory searches matched, and the not-found notice appears *)
(* only when binary_search and sequential_search found nothing either.     *)
C11_DegradesToInMemoryResult ==
    (Compared /\ last.summary /\ last.db.error) =>
        /\ last.binary.result # None =>
              last.shown \in {last.binary.result, last.sequential.result}
        /\ last.notfound =>
              last.binary.result = None /\ last.sequential.result = None

====
